---- MODULE Spec2Model ----
(***************************************************************************)
(* Model of app.py: DatabaseMonitorUI, the polling tick                    *)
(* (check_database_activity) and the session timer (update_ui).            *)
(*                                                                         *)
(* Time is the wall clock read by time.time(), in whole seconds.  The      *)
(* clock does not run backwards, and the two reads of one update_ui call   *)
(* (lines 143 and 148) return the same second.  A tick is one execution of *)
(* check_database_activity on the Qt event loop; it is atomic, as the      *)
(* callback runs to completion on the one UI thread.  The platform calls   *)
(* (setText, setValue, notification.notify, the exits of the two `with`    *)
(* blocks) are taken not to raise.                                         *)
(***************************************************************************)
EXTENDS Integers, Sequences, FiniteSets

\* ------------------------------------------------------------------ bounds
\* Grain of the modelled clock, in seconds: every tick happens a multiple of
\* Quantum seconds after the previous one.
Quantum == 150
\* Longest gap between two consecutive ticks, in quanta (a tick blocked on
\* the connection attempt, a suspended machine).
MaxStep == 3
\* Wall-clock reading when the window is constructed.
StartTime == 1000
\* Seconds of wall clock explored after StartTime.
Horizon == 7650
\* Seconds of wall clock explored after StartTime under fairness (LiveSpec).
LiveHorizon == 4350
\* Seconds of wall clock explored after StartTime when the event loop is
\* modelled step by step (LoopSpec).
LoopHorizon == 4200
\* Most executions of check_database_activity ever nested on the UI thread.
MaxDepth == 2

\* --------------------------------------------------------------- constants
max_duration == 3600
warning_threshold == 300
percent_scale == 100

\* self.session_start = None (line 19); a value no clock reading takes.
None == -1
\* QProgressBar() before any setValue: value() is -1.
Unset == -1
TimesUp == "Time's up! 60 minutes completed."
FiveMinutes == "5 minutes remaining!"
Waiting == <<"Waiting for database activity...">>
Monitoring == <<"Activity detected! Monitoring...">>
Completed == <<"Time's up! Session completed.">>
NoTime == <<>>
NoProgram == "None"
Unknown == "Unknown"

\* program_name values the query can return, and the texts of the exceptions
\* pyodbc can raise.
Programs == {"ssms", "sqlcmd"}
Errors == {"login timeout expired", "connection broken"}
\* The result of cursor.fetchall(): no row, or rows whose first one names a
\* program (only rows[0] is read).
Rows == {<<>>} \cup {<<p>> : p \in Programs}
\* Seconds between two consecutive ticks.
Delays == {Quantum * k : k \in 1..MaxStep}

VARIABLES
    now,                \* wall clock at the last tick
    session_start,      \* self.session_start
    notification_sent,  \* self.notification_sent
    status_label,       \* self.status_label text
    program_label,      \* self.program_label text (after "Program: ")
    time_label,         \* self.time_label text (after "Time Remaining: ")
    progress_bar,       \* self.progress_bar value
    tick,               \* the last tick: how it ended and its is_active
    remaining_local,    \* update_ui's local `remaining` at the last tick:
                        \* <<r>>, or <<>> when the tick did not compute it
    fired,              \* the notifications sent by the last tick, in order
    hist,               \* history of sessions and notifications
    stack,              \* the executions of check_database_activity in
                        \* progress on the UI thread, innermost last: for each
                        \* the <<session_start, notification_sent>> it was
                        \* dispatched on
    timer_due           \* a timeout of monitor_timer waits in the event queue

vars == <<now, session_start, notification_sent, status_label, program_label,
          time_label, progress_bar, tick, remaining_local, fired, hist,
          stack, timer_due>>

\* Python truthiness of self.session_start: None and 0 are false.
Truthy(x) == x # None /\ x # 0

\* int(a / b) for b > 0: truncation toward zero.
Trunc(a, b) == IF a >= 0 THEN a \div b ELSE -((-a) \div b)

\* str(timedelta(seconds=n)) for 0 <= n < 86400 is "H:MM:SS"; the text is
\* modelled by its three fields.
FormatTimedelta(n) == <<n \div 3600, (n % 3600) \div 60, n % 60>>

\* f"Error: {str(e)}"
ErrorText(e) == <<"Error: ", e>>

\* ---------------------------------------------------------------- update_ui
\* Variants of the conditions and assignments below, each changed the way a
\* slip in update_ui would change it.
StartsSession_always(is_active, start) == is_active
StartsSession_blind(is_active, start) == ~Truthy(start)
Expired_strict(remaining) == remaining < 0
WarningDue_strict(remaining, sent) == remaining < warning_threshold /\ ~sent
WarningDue_early(remaining, sent) == ~sent
SentAfterWarning_kept(due, sent) == sent
StartAfterCompletion_kept(start) == start
SentAfterCompletion_kept(sent) == sent
Progress_ceil(elapsed) == (elapsed * percent_scale + max_duration - 1) \div max_duration

\* `is_active and not self.session_start`
StartsSession(is_active, start) == is_active /\ ~Truthy(start)

\* `remaining <= 0`
Expired(remaining) == remaining <= 0

\* `remaining <= 300 and not self.notification_sent`
WarningDue(remaining, sent) == remaining <= warning_threshold /\ ~sent

\* self.notification_sent after the warning branch
SentAfterWarning(due, sent) == IF due THEN TRUE ELSE sent

\* self.session_start and self.notification_sent as the completion branch
\* leaves them
StartAfterCompletion(start) == None
SentAfterCompletion(sent) == FALSE

\* int((elapsed / self.max_duration) * 100)
Progress(elapsed) == Trunc(elapsed * percent_scale, max_duration)

\* A gap in activity ends the session.
start_after_check_gap(is_active, start, t) ==
    IF is_active THEN (IF Truthy(start) THEN start ELSE t) ELSE None

\* self.session_start after the first `if` of update_ui
start_after_check(is_active, start, t) ==
    IF StartsSession(is_active, start) THEN t ELSE start

\* The completion branch also fills the progress bar and zeroes the time.
on_expired_full(start, remaining) ==
    /\ session_start' = StartAfterCompletion(start)
    /\ status_label' = Completed
    /\ fired' = <<TimesUp>>
    /\ notification_sent' = SentAfterCompletion(notification_sent)
    /\ remaining_local' = <<remaining>>
    /\ progress_bar' = percent_scale
    /\ time_label' = FormatTimedelta(0)

\* The `if remaining <= 0:` branch, up to its return
on_expired(start, remaining) ==
    /\ session_start' = StartAfterCompletion(start)
    /\ status_label' = Completed
    /\ fired' = <<TimesUp>>
    /\ notification_sent' = SentAfterCompletion(notification_sent)
    /\ remaining_local' = <<remaining>>
    /\ UNCHANGED <<progress_bar, time_label>>

update_ui(is_active, program, t) ==
    LET starts == StartsSession(is_active, session_start)
        start1 == start_after_check(is_active, session_start, t)
        status1 == IF starts THEN Monitoring ELSE status_label
        program1 == IF starts THEN program ELSE program_label
        elapsed == t - start1
        remaining == max_duration - elapsed
        due == WarningDue(remaining, notification_sent)
    IN  /\ program_label' = program1
        /\ IF ~Truthy(start1)
           THEN /\ session_start' = start1
                /\ status_label' = status1
                /\ remaining_local' = <<>>
                /\ fired' = <<>>
                /\ UNCHANGED <<notification_sent, progress_bar, time_label>>
           ELSE IF Expired(remaining)
           THEN on_expired(start1, remaining)
           ELSE /\ session_start' = start1
                /\ status_label' = status1
                /\ fired' = IF due THEN <<FiveMinutes>> ELSE <<>>
                /\ notification_sent' = SentAfterWarning(due, notification_sent)
                /\ progress_bar' = Progress(elapsed)
                /\ time_label' = FormatTimedelta(Trunc(remaining, 1))
                /\ remaining_local' = <<remaining>>

on_error_reset(e) ==
    /\ status_label' = ErrorText(e)
    /\ session_start' = None
    /\ remaining_local' = <<>>
    /\ fired' = <<>>
    /\ UNCHANGED <<notification_sent, program_label, time_label, progress_bar>>

\* The `except Exception as e` branch: only the status text is written.
on_error(e) ==
    /\ status_label' = ErrorText(e)
    /\ remaining_local' = <<>>
    /\ fired' = <<>>
    /\ UNCHANGED <<session_start, notification_sent, program_label,
                   time_label, progress_bar>>

\* ------------------------------------------------------------------ history
Count(seq, x) == Cardinality({i \in 1..Len(seq) : seq[i] = x})

\* What an observer of the ticks records.  A session runs from the tick that
\* sets session_start to the tick that clears it.
\*   t0          time of the tick that last observed activity while idle
\*   started     sessions started so far
\*   timesup, fivemin   notifications of each kind sent so far
\*   sess_fivemin       "5 minutes remaining!" sent in the latest session
\*   in_window   a successful tick of the latest session ran with
\*               0 < 3600 - (t - t0) <= 300
\*   ever_active, ever_failed   some tick reported activity / failed
Record(ok, is_active, t) ==
    LET opened == ~Truthy(session_start) /\ Truthy(session_start')
        t0n == IF ok /\ is_active /\ ~Truthy(session_start) THEN t ELSE hist.t0
        left == max_duration - (t - t0n)
        inw == /\ ok
               /\ Truthy(session_start) \/ Truthy(session_start')
               /\ left > 0 /\ left <= warning_threshold
    IN  hist' = [t0 |-> t0n,
                 started |-> hist.started + (IF opened THEN 1 ELSE 0),
                 timesup |-> hist.timesup + Count(fired', TimesUp),
                 fivemin |-> hist.fivemin + Count(fired', FiveMinutes),
                 sess_fivemin |-> (IF opened THEN 0 ELSE hist.sess_fivemin)
                                  + Count(fired', FiveMinutes),
                 in_window |-> (IF opened THEN FALSE ELSE hist.in_window) \/ inw,
                 ever_active |-> hist.ever_active \/ (ok /\ is_active),
                 ever_failed |-> hist.ever_failed \/ ~ok]

\* ------------------------------------------------------------------- ticks
\* __init__ and setup_ui
Init ==
    /\ now = StartTime
    /\ session_start = None
    /\ notification_sent = FALSE
    /\ status_label = Waiting
    /\ program_label = NoProgram
    /\ time_label = NoTime
    /\ progress_bar = Unset
    /\ tick = [kind |-> "none", is_active |-> FALSE]
    /\ remaining_local = <<>>
    /\ fired = <<>>
    /\ hist = [t0 |-> None, started |-> 0, timesup |-> 0, fivemin |-> 0,
               sess_fivemin |-> 0, in_window |-> FALSE,
               ever_active |-> FALSE, ever_failed |-> FALSE]
    /\ stack = <<>>
    /\ timer_due = FALSE

\* The body of check_database_activity when connect, execute and fetchall
\* succeed, d seconds after the previous tick
poll_ok(d, rows) ==
    LET is_active == Len(rows) > 0
        program == IF Len(rows) > 0 THEN rows[1] ELSE Unknown
    IN  /\ now' = now + d
        /\ update_ui(is_active, program, now')
        /\ tick' = [kind |-> "ok", is_active |-> is_active]
        /\ Record(TRUE, is_active, now')

\* The body of check_database_activity when connect, execute or fetchall
\* raises e, d seconds after the previous tick
poll_fail(d, e) ==
    /\ now' = now + d
    /\ on_error(e)
    /\ tick' = [kind |-> "fail", is_active |-> FALSE]
    /\ Record(FALSE, FALSE, now')

\* One whole tick that succeeds: the timeout is delivered and the callback
\* runs to its return.
TickOk ==
    \E d \in Delays, rows \in Rows :
        /\ now + d <= StartTime + Horizon
        /\ poll_ok(d, rows)
        /\ UNCHANGED <<stack, timer_due>>

\* One whole tick that fails.
TickFail ==
    \E d \in Delays, e \in Errors :
        /\ now + d <= StartTime + Horizon
        /\ poll_fail(d, e)
        /\ UNCHANGED <<stack, timer_due>>

Next == TickOk \/ TickFail

Spec == Init /\ [][Next]_vars

\* ------------------------------------------------------- recurring polls
\* A successful tick within LiveHorizon.
LiveTickOk ==
    /\ TickOk
    /\ now' <= StartTime + LiveHorizon

\* A failing tick that is not the last one the horizon has room for: a run of
\* failing ticks is followed by a tick that succeeds.
LiveTickFail ==
    /\ TickFail
    /\ now' + Quantum <= StartTime + LiveHorizon

LiveNext == LiveTickOk \/ LiveTickFail

\* monitor_timer keeps firing, and successful polls keep recurring.
LiveSpec == Init /\ [][LiveNext]_vars /\ WF_vars(LiveTickOk)

\* ------------------------------------------------------------- event loop
\* The tick taken apart: the timer's timeout is queued, the event loop
\* delivers it by calling check_database_activity, the call returns.
session_state == <<session_start, notification_sent>>
timer_state == <<now, session_start, notification_sent, status_label,
                 program_label, time_label, progress_bar, tick,
                 remaining_local, fired, hist>>

callback_runs_event_loop_yes == TRUE

\* check_database_activity returns to the event loop only by returning: its
\* body calls nothing that processes events (no processEvents, no exec).
callback_runs_event_loop == FALSE

\* monitor_timer's 2000 ms interval elapses
Timeout ==
    /\ ~timer_due
    /\ timer_due' = TRUE
    /\ UNCHANGED <<timer_state, stack>>

\* The event loop of the UI thread delivers the timeout: it runs only when no
\* callback is running, or from inside a callback that runs it.
Dispatch ==
    /\ timer_due
    /\ stack = <<>> \/ callback_runs_event_loop
    /\ Len(stack) < MaxDepth
    /\ stack' = Append(stack, session_state)
    /\ timer_due' = FALSE
    /\ UNCHANGED timer_state

ReturnOk ==
    /\ stack # <<>>
    /\ \E d \in Delays, rows \in Rows :
        /\ now + d <= StartTime + LoopHorizon
        /\ poll_ok(d, rows)
    /\ stack' = SubSeq(stack, 1, Len(stack) - 1)
    /\ UNCHANGED timer_due

ReturnFail ==
    /\ stack # <<>>
    /\ \E d \in Delays, e \in Errors :
        /\ now + d <= StartTime + LoopHorizon
        /\ poll_fail(d, e)
    /\ stack' = SubSeq(stack, 1, Len(stack) - 1)
    /\ UNCHANGED timer_due

LoopNext == Timeout \/ Dispatch \/ ReturnOk \/ ReturnFail

LoopSpec == Init /\ [][LoopNext]_vars

\* ------------------------------------------------------------------ claims
ErrorTexts == {ErrorText(e) : e \in Errors}
Running == Truthy(session_start)
Elapsed == now - session_start

\* C1: the "5 minutes remaining!" notification is sent at most once in a
\* session, whatever ticks (successful or failing) the session is made of.
C1_WarnAtMostOncePerSession == hist.sess_fivemin <= 1

\* A successful tick inside the last five minutes of a session that has
\* already been warned: it sends nothing.
C1_Witness ==
    /\ tick.kind = "ok"
    /\ Running
    /\ hist.sess_fivemin = 1
    /\ fired = <<>>
    /\ max_duration - Elapsed <= warning_threshold

\* C2: a successful tick run while session_start is set and with
\* remaining <= 0 sends exactly the "Time's up!" notification (and no
\* "5 minutes remaining!"), clears session_start and resets notification_sent.
C2_CompletionTick ==
    [][(/\ tick'.kind = "ok"
        /\ session_start # None
        /\ max_duration - (now' - session_start) <= 0)
       => (/\ fired' = <<TimesUp>>
           /\ session_start' = None
           /\ notification_sent' = FALSE)]_vars

\* A completion tick at remaining = 0 exactly, after the warning was sent.
C2_Witness ==
    /\ tick.kind = "ok"
    /\ fired = <<TimesUp>>
    /\ remaining_local = <<0>>
    /\ hist.sess_fivemin = 1
    /\ session_start = None

\* C3: a failing tick writes an error text to the status and leaves
\* session_start, notification_sent, the progress value, the program text and
\* the remaining-time text as they were, and sends nothing; the next tick can
\* still run.
C3_FailingTickFrame ==
    /\ [][tick'.kind = "fail"
          => (/\ status_label' \in ErrorTexts
              /\ session_start' = session_start
              /\ notification_sent' = notification_sent
              /\ progress_bar' = progress_bar
              /\ program_label' = program_label
              /\ time_label' = time_label
              /\ fired' = <<>>)]_vars
    /\ []((tick.kind = "fail" /\ now + Quantum <= StartTime + Horizon)
          => ENABLED Next)

\* A failing tick in the middle of a warned session.
C3_Witness ==
    /\ tick.kind = "fail"
    /\ Running
    /\ notification_sent
    /\ status_label \in ErrorTexts
    /\ progress_bar # Unset

\* C4: once set, session_start is changed by no tick but the completion tick,
\* which clears it; and every successful tick of a session computes
\* remaining = 3600 - (now - t0), t0 being the time of the tick that observed
\* activity while idle.
C4_StartFrozen ==
    [][/\ Truthy(session_start)
          => \/ session_start' = session_start
             \/ session_start' = None /\ fired' = <<TimesUp>>
       /\ (tick'.kind = "ok" /\ (Truthy(session_start) \/ Truthy(session_start')))
          => remaining_local' = <<max_duration - (now' - hist'.t0)>>]_vars

\* A successful tick reporting activity well into a session that has seen a
\* failure: session_start is still the t0 of the session.
C4_Witness ==
    /\ tick.kind = "ok"
    /\ tick.is_active
    /\ Running
    /\ session_start = hist.t0
    /\ Elapsed >= 2 * Quantum
    /\ hist.ever_failed
    /\ remaining_local = <<max_duration - Elapsed>>

\* C5 as stated: every session that completes was sent exactly one
\* "5 minutes remaining!" before its "Time's up!", whatever the ticks.
C5_ExactlyOneWarning ==
    fired = <<TimesUp>> => hist.sess_fivemin = 1

\* C5 as amended: a session that completes was sent at most one
\* "5 minutes remaining!", before its "Time's up!", and it was sent one exactly
\* when some successful tick of the session ran with 0 < remaining <= 300.
C5_WarningIffWindowTick ==
    fired = <<TimesUp>>
    => /\ hist.sess_fivemin <= 1
       /\ hist.sess_fivemin = 1 <=> hist.in_window

\* A session that completes after a failure and after its warning.
C5_Witness ==
    /\ fired = <<TimesUp>>
    /\ hist.sess_fivemin = 1
    /\ hist.in_window
    /\ hist.ever_failed

\* C6: "5 minutes remaining!" is sent only by a successful tick with
\* 0 < remaining <= 300, so never before 3300 seconds of the session have
\* elapsed.
C6_WarningOnlyInWindow ==
    Count(fired, FiveMinutes) > 0
    => /\ tick.kind = "ok"
       /\ Running
       /\ Elapsed >= max_duration - warning_threshold
       /\ remaining_local = <<max_duration - Elapsed>>
       /\ remaining_local[1] > 0
       /\ remaining_local[1] <= warning_threshold

\* The warning sent by a tick strictly inside the last five minutes.
C6_Witness ==
    /\ fired = <<FiveMinutes>>
    /\ remaining_local[1] < warning_threshold

\* C7: the completion tick leaves the timer idle with notification_sent
\* False, also when it reports activity; and once a session has completed, a
\* successful tick that reports activity while idle starts a session at that
\* tick's time, with notification_sent False and the full 3600 seconds
\* remaining.
C7_FreshSessionAfterCompletion ==
    [][/\ fired' = <<TimesUp>>
          => session_start' = None /\ ~notification_sent'
       /\ (/\ hist.timesup >= 1
           /\ ~Truthy(session_start)
           /\ tick'.kind = "ok"
           /\ tick'.is_active)
          => /\ session_start' = now'
             /\ ~notification_sent'
             /\ remaining_local' = <<max_duration>>
             /\ fired' = <<>>]_vars

\* The second session has just started, after a first one that was warned.
C7_Witness ==
    /\ hist.started = 2
    /\ hist.timesup = 1
    /\ hist.fivemin = 1
    /\ session_start = now
    /\ tick.is_active
    /\ ~notification_sent

\* C8 as stated: while no tick has reported activity the status is the
\* waiting text, the progress value is unset and nothing has been sent.
C8_IdleShowsWaiting ==
    ~hist.ever_active
    => /\ status_label = Waiting
       /\ progress_bar = Unset
       /\ hist.timesup = 0 /\ hist.fivemin = 0 /\ fired = <<>>

\* C8 as amended: while no tick has reported activity the status is the
\* waiting text until a tick fails and an error text from then on, the
\* progress value is unset and nothing has been sent.
C8_IdleShowsWaitingOrError ==
    ~hist.ever_active
    => /\ IF hist.ever_failed THEN status_label \in ErrorTexts
                              ELSE status_label = Waiting
       /\ progress_bar = Unset
       /\ time_label = NoTime
       /\ hist.timesup = 0 /\ hist.fivemin = 0 /\ fired = <<>>

\* A successful tick without activity after a failing one: the error text
\* is still shown.
C8_Witness ==
    /\ ~hist.ever_active
    /\ hist.ever_failed
    /\ tick.kind = "ok"
    /\ status_label \in ErrorTexts
    /\ progress_bar = Unset

C10_IdleOrRunningAfterTick ==
    tick.kind # "none"
    => session_start = None \/ Elapsed < max_duration

\* C10 as amended: after every successful tick the timer is idle or running
\* with less than max_duration elapsed.
C10_IdleOrRunningAfterOkTick ==
    tick.kind = "ok"
    => session_start = None \/ (Truthy(session_start) /\ Elapsed < max_duration)

\* A successful tick in the last quantum of a session.
C10_Witness ==
    /\ tick.kind = "ok"
    /\ Running
    /\ Elapsed >= max_duration - Quantum
    /\ Elapsed < max_duration

\* C11 as stated: a successful tick that reports no activity while a session
\* is running clears session_start.
C11_GapEndsSession ==
    [][(tick'.kind = "ok" /\ ~tick'.is_active /\ Truthy(session_start))
       => session_start' = None]_vars

\* C11 as amended: a successful tick that reports no activity while a session
\* is running leaves session_start as it is, unless the 3600 seconds are over,
\* in which case it completes the session like any other successful tick.
C11_GapKeepsSession ==
    [][(tick'.kind = "ok" /\ ~tick'.is_active /\ Truthy(session_start))
       => IF max_duration - (now' - session_start) <= 0
          THEN session_start' = None /\ fired' = <<TimesUp>>
          ELSE session_start' = session_start]_vars

\* A session still running after a successful tick found no row.
C11_Witness ==
    /\ tick.kind = "ok"
    /\ ~tick.is_active
    /\ Running
    /\ Elapsed >= Quantum
    /\ Elapsed < max_duration
    /\ progress_bar = Progress(Elapsed)

\* C12: every started session eventually completes.  With successful polls
\* recurring, each session that starts early enough for its 3600 seconds to
\* fit in the explored time is eventually ended by its "Time's up!"
\* notification, whatever activity later ticks report and whatever failing
\* ticks come in between.
C12_SessionCompletes ==
    \A n \in 1..(LiveHorizon \div max_duration + 1) :
        (/\ Running
         /\ hist.started = n
         /\ session_start + max_duration + Quantum <= StartTime + LiveHorizon)
        ~> (hist.timesup >= n /\ ~Running)

\* A session completed late, by the first successful tick after a run of
\* failing ones that went past its 3600 seconds.
C12_Witness ==
    /\ fired = <<TimesUp>>
    /\ ~Running
    /\ hist.ever_failed
    /\ remaining_local[1] <= 0 - Quantum
    /\ status_label = Completed

C14_ErrorTextReplaced ==
    [][(status_label \in ErrorTexts /\ tick'.kind = "ok")
       => status_label' \notin ErrorTexts]_vars

\* The tick that comes d seconds after the last one, failing / succeeding
\* without a row, and ending with the given session_start, notification_sent
\* and notifications.
Outcome(s, n, f) ==
    session_start' = s /\ notification_sent' = n /\ fired' = f
FailingTick(d, s, n, f) ==
    Outcome(s, n, f) /\ \E e \in Errors : poll_fail(d, e)
QuietTick(d, s, n, f) ==
    Outcome(s, n, f) /\ poll_ok(d, <<>>)
SameOutcome(d) ==
    \A s \in {None, session_start, now + d}, n \in BOOLEAN,
       f \in {<<>>, <<TimesUp>>, <<FiveMinutes>>} :
        ENABLED FailingTick(d, s, n, f) <=> ENABLED QuietTick(d, s, n, f)
\* The remaining time a tick d seconds from now computes.
RemainingAfter(d) == max_duration - (now + d - session_start)

\* C15 as stated: from every reachable state and for every time of the next
\* tick, a failing tick and a successful tick without activity end with the
\* same session_start, the same notification_sent and the same notifications.
C15_FailureIsNoActivity ==
    \A d \in Delays : SameOutcome(d)

\* C15 as amended: they end the same exactly when the successful tick has
\* nothing to send: the timer is idle, or more than 300 seconds remain, or
\* the warning has been sent and time is not up.  When the successful tick
\* sends the warning or completes the session, the failing one does neither.
C15_FailureIsNoActivityUnlessDue ==
    \A d \in Delays :
        SameOutcome(d)
        <=> \/ ~Running
            \/ RemainingAfter(d) > warning_threshold
            \/ notification_sent /\ RemainingAfter(d) > 0

\* A failing tick early in a session, where a successful one without
\* activity would have changed as little.
C15_Witness ==
    /\ tick.kind = "fail"
    /\ Running
    /\ ~notification_sent
    /\ max_duration - Elapsed > warning_threshold + Quantum
    /\ SameOutcome(Quantum)

\* C16: while session_start is None, notification_sent is False.
C16_FlagOnlyWhileRunning ==
    session_start = None => ~notification_sent

\* Idle again after a session that was warned and then completed.
C16_Witness ==
    /\ session_start = None
    /\ ~notification_sent
    /\ hist.sess_fivemin = 1
    /\ hist.timesup = hist.started
    /\ tick.kind = "ok"
    /\ fired = <<>>

\* C17: the "Time's up!" notifications sent so far are as many as the
\* sessions started, less one while a session is running; and the
\* "5 minutes remaining!" notifications are at most as many as the sessions
\* started.
C17_NotificationCounts ==
    /\ hist.timesup = hist.started - (IF Running THEN 1 ELSE 0)
    /\ hist.fivemin <= hist.started

\* Two sessions started and completed, one of them without its warning.
C17_Witness ==
    /\ hist.started = 2
    /\ hist.timesup = 2
    /\ hist.fivemin = 1
    /\ ~Running

\* C18: the completion tick writes neither the progress value nor the
\* remaining-time text, and while the timer stays idle no tick writes them:
\* after a session they show what its last successful tick before completion
\* wrote, until a tick starts a new session.
C18_DisplayKeptAfterCompletion ==
    [][(fired' = <<TimesUp>> \/ (~Running /\ ~Truthy(session_start')))
       => progress_bar' = progress_bar /\ time_label' = time_label]_vars

\* Idle after a completed session, a tick later: the progress bar still
\* shows a value below 100 and the time text is still the last one written.
C18_Witness ==
    /\ hist.timesup = 1
    /\ ~Running
    /\ fired = <<>>
    /\ tick.kind = "ok"
    /\ progress_bar \in 0..(percent_scale - 1)
    /\ time_label # NoTime
    /\ time_label # FormatTimedelta(0)

====
